---------------------------- MODULE Spec2Model ----------------------------
(***************************************************************************)
(* Model of the PESU material downloader (src/download_material.py).       *)
(*                                                                         *)
(* Strings are sequences of one-character strings, so that sanitising,     *)
(* extension parsing and collision naming are computed character by        *)
(* character, as the Python code computes them.  Paths are POSIX paths.    *)
(***************************************************************************)
EXTENDS Integers, Sequences, FiniteSets, TLC

VARIABLES
    san,            \* sanitize_filename call: [name, out, again]
    ext,            \* get_file_extension_from_headers call: [headers, url, truth, out]
    uq,             \* get_unique_filename calls: [path, truth, before, first, second]
    fs,             \* the file system: path -> content (sequence of fetch ids)
    pc,             \* position of main()
    mode,           \* args.mode
    course,         \* the selected course title, <<>> while there is none
    listed,         \* whether any term of the listing holds the requested course
    units, ui,      \* units of the course, index of the current unit
    topics, ti,     \* topics of the current unit, index of the current topic
    materials, mi,  \* materials of the current topic, index of the current one
    resp,           \* the response of the fetch being processed, or None
    unit_pdf_paths, \* merge mode: the current unit's document list
    requests,       \* every request issued to the portal, in order
    hist,           \* what happened to each fetched material, in fetch order
    merges          \* merge mode: what the merge step of each unit did

vars == <<san, ext, uq, fs, pc, mode, course, listed, units, ui, topics, ti,
          materials, mi, resp, unit_pdf_paths, requests, hist, merges>>

(***************************************************************************)
(* Strings                                                                 *)
(***************************************************************************)
\* The characters of a string literal, as a sequence.
S(s) == [i \in 1..Len(s) |-> SubSeq(s, i, i)]

Lowers == S("abcdefghijklmnopqrstuvwxyz")
Uppers == S("ABCDEFGHIJKLMNOPQRSTUVWXYZ")

UpperChar(c) ==
    IF \E i \in 1..26 : Lowers[i] = c
    THEN Uppers[CHOOSE i \in 1..26 : Lowers[i] = c]
    ELSE c

LowerChar(c) ==
    IF \E i \in 1..26 : Uppers[i] = c
    THEN Lowers[CHOOSE i \in 1..26 : Uppers[i] = c]
    ELSE c

\* str.upper() and str.lower()
Upper(s) == [i \in 1..Len(s) |-> UpperChar(s[i])]
Lower(s) == [i \in 1..Len(s) |-> LowerChar(s[i])]

\* str.strip(chars): drop the leading and trailing characters that are in chars
Strip(s, chars) ==
    LET keep == {i \in 1..Len(s) : s[i] \notin chars}
    IN  IF keep = {} THEN <<>>
        ELSE LET lo == CHOOSE i \in keep : \A j \in keep : i <= j
                 hi == CHOOSE i \in keep : \A j \in keep : j <= i
             IN  SubSeq(s, lo, hi)

\* str.strip(): the ASCII whitespace characters
Whitespace == {" ", "\t", "\n", "\r", "\f"}
StripWs(s) == Strip(s, Whitespace)

\* str.rfind(c), 1-based; 0 when c does not occur
RFind(s, c) ==
    LET at == {i \in 1..Len(s) : s[i] = c}
    IN  IF at = {} THEN 0 ELSE CHOOSE i \in at : \A j \in at : j <= i

\* str(n) for n >= 0
Digits == S("0123456789")
RECURSIVE IntToStr(_)
IntToStr(n) ==
    IF n < 10 THEN <<Digits[n + 1]>>
    ELSE IntToStr(n \div 10) \o <<Digits[(n % 10) + 1]>>

(***************************************************************************)
(* sanitize_filename                                                       *)
(***************************************************************************)
\* The character class of the re.sub call
IllegalChars == {"\\", "/", ":", "*", "?", "\"", "<", ">", "|", "\r", "\n", "\t"}

reserved_names ==
    { S("CON"), S("PRN"), S("AUX"), S("NUL"),
      S("COM1"), S("COM2"), S("COM3"), S("COM4"), S("COM5"),
      S("COM6"), S("COM7"), S("COM8"), S("COM9"),
      S("LPT1"), S("LPT2"), S("LPT3"), S("LPT4"), S("LPT5"),
      S("LPT6"), S("LPT7"), S("LPT8"), S("LPT9") }

\* The length limit of a name, and the length kept before the "..." marker
MaxNameLen == 255
KeptLen == 252

\* re.sub(r'[\\/:*?"<>|\r\n\t]', "_", name)
ReplaceIllegal(name) ==
    [i \in 1..Len(name) |-> IF name[i] \in IllegalChars THEN "_" ELSE name[i]]

\* The reserved-name and empty-name step
Unreserve(sanitized) ==
    IF Upper(sanitized) \in reserved_names \/ sanitized = <<>>
    THEN IF sanitized # <<>> THEN S("file_") \o sanitized ELSE S("unnamed")
    ELSE sanitized

\* A length limit step that lets every name through
TruncateNever(sanitized) == sanitized

\* The length limit step
Truncate(sanitized) ==
    IF Len(sanitized) > MaxNameLen
    THEN SubSeq(sanitized, 1, KeptLen) \o S("...")
    ELSE sanitized

sanitize_filename(name) ==
    Truncate(Unreserve(Strip(ReplaceIllegal(name), {" ", "."})))

(***************************************************************************)
(* os.path                                                                 *)
(***************************************************************************)
\* os.path.splitext(p): <<root, extension>>; leading dots of the last
\* component are not an extension
splitext(p) ==
    LET sepIndex == RFind(p, "/")
        dotIndex == RFind(p, ".")
    IN  IF dotIndex > sepIndex
           /\ \E k \in (sepIndex + 1)..(dotIndex - 1) : p[k] # "."
        THEN <<SubSeq(p, 1, dotIndex - 1), SubSeq(p, dotIndex, Len(p))>>
        ELSE <<p, <<>>>>

\* os.path.join(a, b) for a relative b
join(a, b) ==
    IF a = <<>> \/ a[Len(a)] = "/" THEN a \o b ELSE a \o <<"/">> \o b

\* os.path.basename(p)
basename(p) == SubSeq(p, RFind(p, "/") + 1, Len(p))

\* os.path.dirname(p)
dirname(p) ==
    LET head == SubSeq(p, 1, RFind(p, "/"))
        keep == {i \in 1..Len(head) : head[i] # "/"}
    IN  IF keep = {} THEN head
        ELSE SubSeq(head, 1, CHOOSE i \in keep : \A j \in keep : j <= i)

\* os.path.exists(p)
exists(files, p) == p \in DOMAIN files

(***************************************************************************)
(* get_file_extension_from_headers                                         *)
(***************************************************************************)
\* Where group 1 of  filename[*]?=([^;]+)  starts when the pattern matches
\* at position i of s; 0 when it does not match there.
MatchAt(s, i) ==
    LET n == Len(s)
    IN  IF i + 7 <= n /\ SubSeq(s, i, i + 7) = S("filename")
        THEN IF i + 10 <= n /\ s[i + 8] = "*" /\ s[i + 9] = "=" /\ s[i + 10] # ";"
             THEN i + 10
             ELSE IF i + 9 <= n /\ s[i + 8] = "=" /\ s[i + 9] # ";"
                  THEN i + 9
                  ELSE 0
        ELSE 0

\* re.search(r"filename[*]?=([^;]+)", s).group(1): the group of the leftmost
\* match, or <<>> when there is no match (a group is never empty).
filename_match(s) ==
    LET at == {i \in 1..Len(s) : MatchAt(s, i) # 0}
    IN  IF at = {} THEN <<>>
        ELSE LET i     == CHOOSE k \in at : \A j \in at : k <= j
                 from  == MatchAt(s, i)
                 stops == {k \in from..Len(s) : s[k] = ";"}
                 to    == IF stops = {} THEN Len(s)
                          ELSE (CHOOSE k \in stops : \A j \in stops : k <= j) - 1
             IN  SubSeq(s, from, to)

\* headers.get("Content-Disposition", "")
HeaderGet(headers, key) ==
    IF key \in DOMAIN headers THEN headers[key] ELSE <<>>

\* The extension the Content-Disposition header gives, <<>> when it gives none
DispositionExt(headers) ==
    LET content_disposition == HeaderGet(headers, "Content-Disposition")
        group == filename_match(content_disposition)
    IN  IF content_disposition # <<>> /\ group # <<>>
        THEN splitext(Strip(group, {"'", "\""}))[2]
        ELSE <<>>

\* The extension of the URL string
UrlExt(url) == splitext(url)[2]

HeaderFirst(headers, url, default_ext) ==
    IF DispositionExt(headers) # <<>> THEN Lower(DispositionExt(headers))
    ELSE IF UrlExt(url) # <<>> THEN Lower(UrlExt(url))
    ELSE default_ext

UrlFirst(headers, url, default_ext) ==
    IF UrlExt(url) # <<>> THEN Lower(UrlExt(url))
    ELSE IF DispositionExt(headers) # <<>> THEN Lower(DispositionExt(headers))
    ELSE default_ext

get_file_extension_from_headers(headers, url, default_ext) ==
    HeaderFirst(headers, url, default_ext)

\* The default of the default_ext parameter
DefaultExt == S(".pdf")

(***************************************************************************)
(* get_unique_filename                                                     *)
(***************************************************************************)
\* The while loop: the first counter from `counter` on whose name is unused
RECURSIVE next_free(_, _, _, _, _)
next_free(files, directory, filename, extension, counter) ==
    LET new_filename == filename \o <<"_">> \o IntToStr(counter) \o extension
        new_filepath == join(directory, new_filename)
    IN  IF ~exists(files, new_filepath) THEN new_filepath
        ELSE next_free(files, directory, filename, extension, counter + 1)

SuffixFrom2(files, filepath) ==
    IF ~exists(files, filepath) THEN filepath
    ELSE LET directory == dirname(filepath)
             parts     == splitext(basename(filepath))
         IN  next_free(files, directory, parts[1], parts[2], 2)

\* A resolver that appends the counter after the extension
SuffixAfterExt(files, filepath) ==
    IF ~exists(files, filepath) THEN filepath
    ELSE LET directory == dirname(filepath)
             parts     == splitext(basename(filepath))
         IN  next_free(files, directory, parts[1] \o parts[2], <<>>, 2)

get_unique_filename(files, filepath) == SuffixFrom2(files, filepath)

(***************************************************************************)
(* The file system: a function from paths to contents.  The content of a   *)
(* downloaded file is <<id>>, id the number of its fetch; the content of a *)
(* merged file is the sequence of the ids appended to it.                  *)
(***************************************************************************)
DirMark == <<-1>>

\* open(p, "wb").write(c): creates p or replaces its content
WriteFile(files, p, c) ==
    [q \in DOMAIN files \cup {p} |-> IF q = p THEN c ELSE files[q]]

\* os.remove(p)
RemoveFile(files, p) == [q \in DOMAIN files \ {p} |-> files[q]]

\* os.rename(src, dst)
RenameFile(files, src, dst) ==
    RemoveFile(WriteFile(files, dst, files[src]), src)

\* os.makedirs(p, exist_ok=True)
RECURSIVE makedirs(_, _)
makedirs(files, p) ==
    IF p = <<>> \/ p \in DOMAIN files \/ dirname(p) = p THEN files
    ELSE WriteFile(makedirs(files, dirname(p)), p, DirMark)

\* Whether p lies in directory d
Under(d, p) == Len(p) > Len(d) + 1 /\ SubSeq(p, 1, Len(d) + 1) = d \o <<"/">>

\* TemporaryDirectory.cleanup(): the directory and all it holds
RemoveTree(files, d) ==
    [q \in {r \in DOMAIN files : r # d /\ ~Under(d, r)} |-> files[q]]

\* The plain files of directory d
FilesIn(files, d) ==
    {p \in DOMAIN files : dirname(p) = d /\ files[p] # DirMark}

(***************************************************************************)
(* Values the variables of a part hold while another part is exercised     *)
(***************************************************************************)
SanIdle == san = [name |-> <<>>, out |-> <<>>, again |-> <<>>, calls |-> 0]

ExtIdle ==
    ext = [headers |-> <<>>, url |-> <<>>, truth |-> <<>>, out |-> <<>>, calls |-> 0]

UqIdle ==
    uq = [path |-> <<>>, truth |-> <<>>, before |-> {}, first |-> <<>>,
          second |-> <<>>, calls |-> 0]

NoResp == [status |-> 0, headers |-> <<>>, temp_path |-> <<>>]

MainIdle ==
    /\ pc = "idle" /\ mode = "folder" /\ course = <<>> /\ listed = FALSE
    /\ units = <<>> /\ ui = 0 /\ topics = <<>> /\ ti = 0
    /\ materials = <<>> /\ mi = 0 /\ resp = NoResp
    /\ unit_pdf_paths = <<>> /\ requests = <<>> /\ hist = <<>> /\ merges = <<>>

mainVars == <<pc, mode, course, listed, units, ui, topics, ti, materials, mi,
              resp, unit_pdf_paths, requests, hist, merges>>

\* All sequences over alphabet of length at most n
SeqUpTo(alphabet, n) == UNION {[1..k -> alphabet] : k \in 0..n}

(***************************************************************************)
(* sanitize_filename applied to a name, then to its own result             *)
(***************************************************************************)
\* Short names: every string up to MaxShort over characters that meet each
\* step (an illegal character, the stripped ones, a reserved name in both
\* cases).
MaxShort == 4
ShortChars == {"C", "O", "N", "o", "/", " ", "."}

\* Long names: a head, a run of one letter around the length limit, a tail.
MaxOver == 2
MaxTail == 2
LongHeads == {<<>>, <<".">>, <<"?">>}
TailChars == {"a", ".", " "}
Fill(n) == [i \in 1..n |-> "a"]

LongNames ==
    {h \o Fill(n) \o t : h \in LongHeads,
                         n \in (KeptLen - 1)..(MaxNameLen + MaxOver),
                         t \in SeqUpTo(TailChars, MaxTail)}

SanNames == SeqUpTo(ShortChars, MaxShort) \cup LongNames

SanInit ==
    /\ san \in {[name |-> n, out |-> <<>>, again |-> <<>>, calls |-> 0] : n \in SanNames}
    /\ ExtIdle /\ UqIdle /\ MainIdle /\ fs = <<>>

SanCall ==
    /\ san.calls = 0
    /\ san' = [san EXCEPT !.out = sanitize_filename(san.name), !.calls = 1]
    /\ UNCHANGED <<ext, uq, fs, mainVars>>

SanAgain ==
    /\ san.calls = 1
    /\ san' = [san EXCEPT !.again = sanitize_filename(san.out), !.calls = 2]
    /\ UNCHANGED <<ext, uq, fs, mainVars>>

SanNext == SanCall \/ SanAgain

SanSpec == SanInit /\ [][SanNext]_vars

\* C7: whatever the input, the result of sanitize_filename holds none of the
\* characters \ / : * ? " < > | CR LF TAB, is not empty, is not a reserved
\* device name in any letter case, and is at most 255 characters long.
SanitizeSafe ==
    san.calls >= 1 =>
        /\ \A i \in 1..Len(san.out) : san.out[i] \notin IllegalChars
        /\ san.out # <<>>
        /\ Lower(san.out) \notin {Lower(r) : r \in reserved_names}
        /\ Len(san.out) <= MaxNameLen

\* A name over the limit that also holds an illegal character was sanitised
SanitizeSafeWitness ==
    /\ san.calls >= 1
    /\ Len(san.name) > MaxNameLen
    /\ \E i \in 1..Len(san.name) : san.name[i] \in IllegalChars

\* C8: sanitize_filename applied to its own result returns that result, for
\* every input, truncated ones included.
SanitizeIdempotent ==
    san.calls = 2 => san.again = san.out

(***************************************************************************)
(* get_file_extension_from_headers on headers and URLs whose extensions    *)
(* are known by construction                                               *)
(***************************************************************************)
\* File names a Content-Disposition header may carry, each with the
\* extension it has (<<>>: none)
CdNames ==
    { [name |-> S("notes.docx"), ext |-> S(".docx")],
      [name |-> S("Notes.PDF"),  ext |-> S(".PDF")],
      [name |-> S("a.tar.gz"),   ext |-> S(".gz")],
      [name |-> S("notes"),      ext |-> <<>>],
      [name |-> S(".hidden"),    ext |-> <<>>] }

CdPrefixes == {<<>>, S("attachment; ")}
CdKeys     == {S("filename="), S("filename*=")}
CdQuotes   == {<<>>, <<"\"">>, <<"'">>}
CdSuffixes == {<<>>, S("; size=12")}

\* Headers with a filename parameter
CdHeaders ==
    { [headers |-> [k \in {"Content-Disposition"} |-> p \o k0 \o q \o n.name \o q \o x],
       cd_ext  |-> n.ext] :
        p \in CdPrefixes, k0 \in CdKeys, q \in CdQuotes, n \in CdNames, x \in CdSuffixes }

\* Headers without one: no header at all, an empty one, one with no filename
PlainHeaders ==
    { [headers |-> <<>>, cd_ext |-> <<>>],
      [headers |-> [k \in {"Content-Disposition"} |-> <<>>], cd_ext |-> <<>>],
      [headers |-> [k \in {"Content-Disposition"} |-> S("inline")], cd_ext |-> <<>>],
      [headers |-> [k \in {"Content-Type"} |-> S("application/pdf")], cd_ext |-> <<>>] }

\* URLs, each with the extension of its path and whether a query string or
\* a fragment follows the path
Urls ==
    { [url |-> S("http://x/file"),            url_ext |-> <<>>,       tail |-> FALSE],
      [url |-> S("http://x/f.bin"),           url_ext |-> S(".bin"),  tail |-> FALSE],
      [url |-> S("http://x/F.PPT"),           url_ext |-> S(".PPT"),  tail |-> FALSE],
      [url |-> S("http://x.y/d.v2/file"),     url_ext |-> <<>>,       tail |-> FALSE],
      [url |-> S("http://x/slides.pptx?x=1"), url_ext |-> S(".pptx"), tail |-> TRUE],
      [url |-> S("http://x/Notes.PDF#p2"),    url_ext |-> S(".PDF"),  tail |-> TRUE],
      [url |-> S("http://x/file?v=1.2"),      url_ext |-> <<>>,       tail |-> TRUE] }

ExtInit ==
    /\ ext \in { [headers |-> h.headers, url |-> u.url,
                  truth |-> [cd_ext |-> h.cd_ext, url_ext |-> u.url_ext, tail |-> u.tail],
                  out |-> <<>>, calls |-> 0] :
                 h \in CdHeaders \cup PlainHeaders, u \in Urls }
    /\ SanIdle /\ UqIdle /\ MainIdle /\ fs = <<>>

ExtCall ==
    /\ ext.calls = 0
    /\ ext' = [ext EXCEPT
                 !.out = get_file_extension_from_headers(ext.headers, ext.url, DefaultExt),
                 !.calls = 1]
    /\ UNCHANGED <<san, uq, fs, mainVars>>

ExtNext == ExtCall

ExtSpec == ExtInit /\ [][ExtNext]_vars

UrlExtIgnoresQuery ==
    (ext.calls = 1 /\ ext.truth.cd_ext = <<>> /\ ext.truth.tail
                   /\ ext.truth.url_ext # <<>>)
        => ext.out = Lower(ext.truth.url_ext)

(***************************************************************************)
(* get_unique_filename against a directory snapshot, then again after its  *)
(* first result has been created                                           *)
(***************************************************************************)
\* Suffixes the snapshots may occupy one by one, and the length of the one
\* snapshot that occupies a whole run of them (two-digit counters)
MaxSuffix == 4
LongRun == 10

UqDirs  == {<<>>, S("out/T")}
UqBases == {S("a"), S("a.b"), S(".x")}
UqExts  == {<<>>, S(".pdf")}

\* Decimal numerals, written out
Numerals == <<"1", "2", "3", "4", "5", "6", "7", "8", "9", "10", "11", "12", "13">>

\* <base>_<n><ext> in the directory, from the parts the path was built of
Candidate(truth, n) ==
    (IF truth.dir = <<>> THEN <<>> ELSE truth.dir \o <<"/">>)
        \o truth.base \o <<"_">> \o S(Numerals[n]) \o truth.ext

PathOf(truth) ==
    (IF truth.dir = <<>> THEN <<>> ELSE truth.dir \o <<"/">>) \o truth.base \o truth.ext

\* Files that are near misses of the candidates
Distractors(truth) ==
    { PathOf(truth) \o S("_2"), S("other/") \o truth.base \o S("_2") \o truth.ext }

Snapshots(truth) ==
    { s \cup d : s \in SUBSET ({PathOf(truth)} \cup {Candidate(truth, n) : n \in 2..MaxSuffix}),
                 d \in SUBSET Distractors(truth) }
    \cup { {PathOf(truth)} \cup {Candidate(truth, n) : n \in 2..LongRun} }

\* A base with an inner dot is only paired with an extension: without one,
\* its own last dot would start the extension
Truths ==
    {tr \in [dir : UqDirs, base : UqBases, ext : UqExts] :
        tr.base = S("a.b") => tr.ext # <<>>}

UqInit ==
    /\ \E truth \in Truths : \E snap \in Snapshots(truth) :
          /\ fs = [p \in snap |-> <<0>>]
          /\ uq = [path |-> PathOf(truth), truth |-> truth, before |-> snap,
                   first |-> <<>>, second |-> <<>>, calls |-> 0]
    /\ SanIdle /\ ExtIdle /\ MainIdle

UqFirst ==
    /\ uq.calls = 0
    /\ uq' = [uq EXCEPT !.first = get_unique_filename(fs, uq.path), !.calls = 1]
    /\ UNCHANGED <<san, ext, fs, mainVars>>

\* The caller creates the file it was given the name of
UqCreate ==
    /\ uq.calls = 1
    /\ uq.first \notin DOMAIN fs
    /\ fs' = [p \in DOMAIN fs \cup {uq.first} |-> IF p = uq.first THEN <<1>> ELSE fs[p]]
    /\ UNCHANGED <<san, ext, uq, mainVars>>

UqSecond ==
    /\ uq.calls = 1
    /\ uq.first \in DOMAIN fs
    /\ uq' = [uq EXCEPT !.second = get_unique_filename(fs, uq.path), !.calls = 2]
    /\ UNCHANGED <<san, ext, fs, mainVars>>

UqNext == UqFirst \/ UqCreate \/ UqSecond

UqSpec == UqInit /\ [][UqNext]_vars

\* The numeric suffix of a result: 1 for the path itself
SuffixOf(truth, p) ==
    IF p = PathOf(truth) THEN 1
    ELSE CHOOSE n \in 2..(LongRun + 3) : p = Candidate(truth, n)

\* C9: get_unique_filename returns the path itself when it does not exist,
\* otherwise <base>_<n><ext> in the same directory for the least n >= 2 that
\* does not exist; the result never exists at call time; and once the first
\* result has been created, a second call returns a strictly higher suffix.
UniqueLeastSuffix ==
    /\ uq.calls >= 1 =>
          /\ uq.first \notin uq.before
          /\ uq.path \notin uq.before => uq.first = uq.path
          /\ uq.path \in uq.before =>
                \E n \in 2..(LongRun + 2) :
                    /\ uq.first = Candidate(uq.truth, n)
                    /\ \A k \in 2..(n - 1) : Candidate(uq.truth, k) \in uq.before
    /\ uq.calls = 2 =>
          /\ uq.second \notin DOMAIN fs
          /\ \E n \in 2..(LongRun + 3) : uq.second = Candidate(uq.truth, n)
          /\ SuffixOf(uq.truth, uq.second) > SuffixOf(uq.truth, uq.first)

\* Both calls were made on a path that existed together with its _2 name and
\* that has an extension: the results are the _3 and _4 names
UniqueLeastSuffixWitness ==
    /\ uq.calls = 2
    /\ uq.truth.ext = S(".pdf")
    /\ {uq.path, Candidate(uq.truth, 2)} \subseteq uq.before
    /\ uq.first = Candidate(uq.truth, 3)
    /\ uq.second = Candidate(uq.truth, 4)

(***************************************************************************)
(* main(): what the portal and the environment may answer                  *)
(***************************************************************************)
\* args.course, and the titles a listed course may have
Requested == S("DSA")
CourseTitles == {S("DSA"), S("dsa")}

\* get_courses: a mapping of term to course sequence, as the sequence of its
\* values in the mapping's order
MaxTerms == 2
MaxCourses == 2
Listings == SeqUpTo(SeqUpTo(CourseTitles, MaxCourses), MaxTerms)

\* get_units_for_course: no unit, one unit, two units whose titles sanitise
\* to the same name, two whose titles do not.  get_topics_for_unit: no
\* topic, one topic, two topics whose titles sanitise to the same name.
UnitListings ==
    { <<>>, <<S("U:")>>, <<S("U:"), S("U?")>>, <<S("U:"), S("V\t")>> }
TopicListings ==
    { <<>>, <<S("T")>>, <<S("T"), S("T.")>> }

\* get_material_links: materials whose titles sanitise to the same name, a
\* title that holds an extension, URLs with and without an extension; with
\* each, the headers the portal answers a fetch of its URL with
MaterialKinds ==
    { [title |-> S("temp:a"), url |-> S("http://x/file"),  headers |-> <<>>],
      [title |-> S("temp_a"), url |-> S("http://x/s.PPT"), headers |-> <<>>],
      [title |-> S("a.pdf"),  url |-> S("http://x/f.bin"),
       headers |-> [k \in {"Content-Disposition"} |->
                       S("attachment; filename=\"n.docx\"")]] }

\* Materials per topic; fetches per run, of a course of one unit and of a
\* course of several; and failures of the environment (a status other than
\* 200, a rename that raises, an append that raises on a malformed
\* document) per run
MaxMaterials == 2
MaxFetch == 3
MaxFetchWide == 2
MaxFaults == 1
FetchBudget == IF Len(units) <= 1 THEN MaxFetch ELSE MaxFetchWide

\* tempfile.TemporaryDirectory()
tmpdir == S("/tmp/tmpdl")

(***************************************************************************)
(* main(): the values its statements compute                               *)
(***************************************************************************)
output_name == sanitize_filename(course)
unit_folder == join(output_name, sanitize_filename(StripWs(units[ui])))
topic_folder == join(unit_folder, sanitize_filename(StripWs(topics[ti])))
material == materials[mi]
safe_title == sanitize_filename(StripWs(material.title))
temp_path ==
    join(IF mode = "folder" THEN topic_folder ELSE tmpdir, S("temp_") \o safe_title)
actual_ext == get_file_extension_from_headers(resp.headers, material.url, DefaultExt)
\* A folder mode that keeps the legacy extension
KeepExt == actual_ext

\* Lines 178-182
final_ext == IF Lower(actual_ext) = S(".ppt") THEN S(".pptx") ELSE actual_ext
final_path == join(topic_folder, safe_title \o final_ext)
actual_path == join(tmpdir, safe_title \o actual_ext)
merged_pdf ==
    join(output_name, sanitize_filename(StripWs(units[ui])) \o S(".pdf"))

\* The failures of the environment so far
RECURSIVE BadAppends(_)
BadAppends(i) == IF i = 0 THEN 0 ELSE merges[i].bad + BadAppends(i - 1)
Faults ==
    Cardinality({i \in 1..Len(hist) : hist[i].outcome \in {"failed", "orphan_removed"}})
        + BadAppends(Len(merges))
MayFail == Faults < MaxFaults

Request(op, n) == [op |-> op, u |-> ui, t |-> ti, m |-> mi, n |-> n]

\* The record of the material being processed: the last one of hist
Last(h) == h[Len(h)]
SetLast(h, e) == [h EXCEPT ![Len(h)] = e]

(***************************************************************************)
(* main(): course lookup (lines 138-149)                                   *)
(***************************************************************************)
FirstTerm(listing) == listing[1]
AllTerms(listing) ==
    IF listing = <<>> THEN <<>>
    ELSE LET RECURSIVE Cat(_)
             Cat(i) == IF i > Len(listing) THEN <<>> ELSE listing[i] \o Cat(i + 1)
         IN  Cat(1)

\* The courses the lookup searches
SearchedCourses(listing) == FirstTerm(listing)

Login ==
    /\ pc = "login"
    /\ \E listing \in Listings :
          /\ requests' = Append(requests, Request("get_courses", Len(listing)))
          /\ listed' = (\E i \in 1..Len(AllTerms(listing)) : AllTerms(listing)[i] = Requested)
          /\ IF listing = <<>>
             THEN /\ pc' = "crashed"
                  /\ course' = course
             ELSE LET courses == SearchedCourses(listing)
                      hits == {i \in 1..Len(courses) : courses[i] = Requested}
                  IN  IF hits = {}
                      THEN /\ pc' = "notfound"
                           /\ course' = course
                      ELSE /\ pc' = "get_units"
                           /\ course' = courses[CHOOSE i \in hits : \A j \in hits : i <= j]
    /\ UNCHANGED <<san, ext, uq, fs, mode, units, ui, topics, ti, materials, mi,
                   resp, unit_pdf_paths, hist, merges>>

(***************************************************************************)
(* main(): the three nested for loops (lines 153, 157, 161 and 201, 204,   *)
(* 206).  Each operator gives <<pc, ui, ti, mi>> for the next iteration.   *)
(***************************************************************************)
\* for unit in units, from unit u on; when it is exhausted main returns
ToUnit(us, u) ==
    IF u <= Len(us) THEN <<"unit", u, 0, 0>> ELSE <<"done", u, 0, 0>>

\* for topic in topics, from topic t on; when it is exhausted folder mode
\* takes the next unit and merge mode goes on to the unit's merge step
ToTopic(tl, u, t) ==
    IF t <= Len(tl) THEN <<"topic", u, t, 0>>
    ELSE IF mode = "folder" THEN ToUnit(units, u + 1)
    ELSE <<"merge", u, 0, 0>>

\* for material in materials, from material m on
ToMaterial(ml, u, t, m) ==
    IF m <= Len(ml) THEN <<"material", u, t, m>> ELSE ToTopic(topics, u, t + 1)

Goto(at) == pc' = at[1] /\ ui' = at[2] /\ ti' = at[3] /\ mi' = at[4]

\* Leaving the with block of merge mode removes the scratch directory
\* (lines 200 and 276)
LeaveWith(files, at) ==
    IF at[1] = "done" /\ mode = "singlepdf" THEN RemoveTree(files, tmpdir) ELSE files

\* lines 147-152 and 199-200: the units, the output directory, the scratch
\* directory of merge mode
GetUnits ==
    /\ pc = "get_units"
    /\ \E us \in UnitListings :
          /\ units' = us
          /\ Goto(ToUnit(us, 1))
          /\ fs' = LeaveWith(IF mode = "folder" THEN makedirs(fs, output_name)
                             ELSE makedirs(makedirs(fs, output_name), tmpdir),
                             ToUnit(us, 1))
    /\ requests' = Append(requests, Request("get_units", Len(units')))
    /\ UNCHANGED <<san, ext, uq, mode, course, listed, topics, materials,
                   resp, unit_pdf_paths, hist, merges>>

\* A unit loop that goes on with the document list of the unit before
CarriedList(paths) == paths

\* Line 202: every unit starts with an empty document list
NewUnitList(paths) == <<>>

\* Top of the unit loop (lines 154-156 and 202-203): the unit's folder
\* (folder mode) or its empty document list (merge mode), then its topics
StartUnit ==
    /\ pc = "unit"
    /\ \E tl \in TopicListings :
          /\ topics' = tl
          /\ LET at == IF tl # <<>> THEN <<"topic", ui, 1, 0>>
                       ELSE IF mode = "folder" THEN ToUnit(units, ui + 1)
                       ELSE <<"merge", ui, 0, 0>>
             IN  /\ Goto(at)
                 /\ fs' = LeaveWith(IF mode = "folder" THEN makedirs(fs, unit_folder)
                                    ELSE fs, at)
    /\ requests' = Append(requests, Request("get_topics", Len(topics')))
    /\ unit_pdf_paths' = NewUnitList(unit_pdf_paths)
    /\ UNCHANGED <<san, ext, uq, mode, course, listed, units, materials,
                   resp, hist, merges>>

\* Top of the topic loop (lines 158-160 and 205): the topic's folder (folder
\* mode), then its materials
StartTopic ==
    /\ pc = "topic"
    /\ \E ml \in SeqUpTo(MaterialKinds, MaxMaterials) :
          /\ Len(hist) + Len(ml) <= FetchBudget
          /\ materials' = ml
          /\ LET at == ToMaterial(ml, ui, ti, 1)
             IN  /\ Goto(at)
                 /\ fs' = LeaveWith(IF mode = "folder" THEN makedirs(fs, topic_folder)
                                    ELSE fs, at)
    /\ requests' = Append(requests, Request("get_material_links", Len(materials')))
    /\ UNCHANGED <<san, ext, uq, mode, course, listed, units, topics,
                   resp, unit_pdf_paths, hist, merges>>

(***************************************************************************)
(* download_file (lines 58-67), as main calls it (lines 162-172, 207-217)  *)
(***************************************************************************)
\* A main that issues the next fetch while the last material is still to
\* be placed
FetchAhead == pc \in {"material", "staged"}

\* main reaches download_file at the top of the material loop's body only
\* (lines 161-169 and 206-214): every await before it has returned
AtFetch == pc = "material"

\* session.get(url) is issued
Download ==
    /\ AtFetch
    /\ requests' = Append(requests, Request("get", 0))
    /\ pc' = "fetching"
    /\ UNCHANGED <<san, ext, uq, fs, mode, course, listed, units, ui, topics, ti,
                   materials, mi, resp, unit_pdf_paths, hist, merges>>

Entry(status) ==
    [u |-> ui, t |-> ti, m |-> mi, status |-> status, temp |-> temp_path,
     ext |-> <<>>, final |-> <<>>, outcome |-> IF status = 200 THEN "staged" ELSE "failed",
     slot |-> 0]

\* The disk after download_file: on 200 the body is written to dest (and
\* the headers are returned); otherwise nothing is written (and None is
\* returned)
download_file(files, dest, body, status) ==
    IF status = 200 THEN WriteFile(files, dest, body) ELSE files

\* A main that gives up the traversal at the first failed download
StopOnFailure(at) == <<"done", at[2], 0, 0>>

\* Where main goes after a material whose download failed (lines 171-172
\* and 216-217): on to the next iteration
SkipFailed(at) == at

\* The response arrives; on a status other than 200 main continues with the
\* next material
Response ==
    /\ pc = "fetching"
    /\ \E status \in {200} \cup (IF MayFail THEN {404} ELSE {}) :
          /\ hist' = Append(hist, Entry(status))
          /\ IF status = 200
             THEN /\ resp' = [status |-> status, headers |-> material.headers,
                              temp_path |-> temp_path]
                  /\ pc' = "staged"
                  /\ UNCHANGED <<ui, ti, mi>>
                  /\ fs' = download_file(fs, temp_path, <<Len(hist) + 1>>, status)
             ELSE /\ resp' = NoResp
                  /\ LET at == SkipFailed(ToMaterial(materials, ui, ti, mi + 1))
                     IN  /\ Goto(at)
                         /\ fs' = LeaveWith(download_file(fs, temp_path,
                                                          <<Len(hist) + 1>>, status), at)
    /\ UNCHANGED <<san, ext, uq, mode, course, listed, units, topics,
                   materials, unit_pdf_paths, requests, merges>>

(***************************************************************************)
(* main(): placement                                                       *)
(***************************************************************************)
\* What the environment may do to the rename and to the cleanup after it
RenameOutcomes ==
    {"renamed"} \cup (IF MayFail THEN {"rename_failed", "cleanup_failed"} ELSE {})

\* An except block that leaves the staged file where it is
CleanupSkipped(files, path) == files

\* The except block (lines 193-197 and 232-236): the staged file is removed
\* when it is there
Cleanup(files, path) ==
    IF exists(files, path) THEN RemoveFile(files, path) ELSE files

\* Folder mode, lines 174-197: resolve the extension, pick the unique final
\* path, rename; when the rename raises, remove the staged file.  An
\* os.remove that raises inside the except block is not caught by anything.
PlaceFolder ==
    /\ pc = "staged" /\ mode = "folder"
    /\ LET unique_final_path == get_unique_filename(fs, final_path)
           e == [Last(hist) EXCEPT !.ext = actual_ext, !.final = unique_final_path]
           at == ToMaterial(materials, ui, ti, mi + 1)
       IN  \E o \in RenameOutcomes :
              CASE o = "renamed" ->
                     /\ fs' = RenameFile(fs, temp_path, unique_final_path)
                     /\ hist' = SetLast(hist, [e EXCEPT !.outcome = "placed"])
                     /\ Goto(at)
                [] o = "rename_failed" ->
                     /\ fs' = Cleanup(fs, temp_path)
                     /\ hist' = SetLast(hist, [e EXCEPT !.outcome = "orphan_removed"])
                     /\ Goto(at)
                [] o = "cleanup_failed" ->
                     /\ exists(fs, temp_path)
                     /\ fs' = fs
                     /\ hist' = SetLast(hist, [e EXCEPT !.outcome = "cleanup_failed"])
                     /\ pc' = "crashed"
                     /\ UNCHANGED <<ui, ti, mi>>
    /\ resp' = NoResp
    /\ UNCHANGED <<san, ext, uq, mode, course, listed, units, topics,
                   materials, unit_pdf_paths, requests, merges>>

\* The extensions merge mode keeps for the merge
IsPdf(e) == Lower(e) = S(".pdf")

\* A classification that also lets the slide formats into the document list
IsPdfOrSlides(e) == Lower(e) \in {S(".pdf"), S(".ppt"), S(".pptx")}

\* Lines 242-249: the slide formats and everything else are removed, only
\* a .pdf is listed
Mergeable(e) == IsPdf(e)

\* Merge mode, lines 219-249: resolve the extension, pick the unique scratch
\* path, rename (cleanup as in folder mode), then classify: a .pdf joins the
\* unit's document list, anything else is removed at once.  An exception
\* leaves the with block, which removes the scratch directory.
PlaceMerge ==
    /\ pc = "staged" /\ mode = "singlepdf"
    /\ LET unique_actual_path == get_unique_filename(fs, actual_path)
           e == [Last(hist) EXCEPT !.ext = actual_ext, !.final = unique_actual_path]
           at == ToMaterial(materials, ui, ti, mi + 1)
       IN  \E o \in RenameOutcomes :
              CASE o = "renamed" ->
                     /\ Goto(at)
                     /\ IF Mergeable(actual_ext)
                        THEN /\ fs' = RenameFile(fs, temp_path, unique_actual_path)
                             /\ unit_pdf_paths' = Append(unit_pdf_paths, unique_actual_path)
                             /\ hist' = SetLast(hist, [e EXCEPT !.outcome = "listed",
                                                                !.slot = Len(unit_pdf_paths) + 1])
                        ELSE /\ fs' = RemoveFile(RenameFile(fs, temp_path, unique_actual_path),
                                                 unique_actual_path)
                             /\ unit_pdf_paths' = unit_pdf_paths
                             /\ hist' = SetLast(hist, [e EXCEPT !.outcome = "rejected"])
                [] o = "rename_failed" ->
                     /\ fs' = Cleanup(fs, temp_path)
                     /\ hist' = SetLast(hist, [e EXCEPT !.outcome = "orphan_removed"])
                     /\ unit_pdf_paths' = unit_pdf_paths
                     /\ Goto(at)
                [] o = "cleanup_failed" ->
                     /\ exists(fs, temp_path)
                     /\ fs' = RemoveTree(fs, tmpdir)
                     /\ hist' = SetLast(hist, [e EXCEPT !.outcome = "cleanup_failed"])
                     /\ unit_pdf_paths' = unit_pdf_paths
                     /\ pc' = "crashed"
                     /\ UNCHANGED <<ui, ti, mi>>
    /\ resp' = NoResp
    /\ UNCHANGED <<san, ext, uq, mode, course, listed, units, topics,
                   materials, requests, merges>>

(***************************************************************************)
(* main(): the merge step of a unit (lines 250-276)                        *)
(***************************************************************************)
\* The fetch ids held by the files of the document list
ListedIds ==
    UNION { {fs[unit_pdf_paths[i]][k] : k \in 1..Len(fs[unit_pdf_paths[i]])} :
            i \in {j \in 1..Len(unit_pdf_paths) : exists(fs, unit_pdf_paths[j])} }

\* merger.append(pdf) succeeds when the file is there and is a well-formed
\* document
AppendOk(bad, i) ==
    /\ exists(fs, unit_pdf_paths[i])
    /\ \A k \in 1..Len(fs[unit_pdf_paths[i]]) : fs[unit_pdf_paths[i]][k] \notin bad

\* The for loop over unit_pdf_paths: what the merger holds after it
RECURSIVE Appended(_, _)
Appended(bad, i) ==
    IF i > Len(unit_pdf_paths) THEN <<>>
    ELSE (IF AppendOk(bad, i) THEN fs[unit_pdf_paths[i]] ELSE <<>>) \o Appended(bad, i + 1)

\* A merge step that writes the accumulator whatever was appended
WriteAlways(successful_merges) == TRUE

\* Line 265
WriteMerged(successful_merges) == successful_merges # 0

Merge ==
    /\ pc = "merge"
    /\ \E bad \in {b \in SUBSET ListedIds : Faults + Cardinality(b) <= MaxFaults} :
          LET oks == [i \in 1..Len(unit_pdf_paths) |-> AppendOk(bad, i)]
              successful_merges == Cardinality({i \in 1..Len(unit_pdf_paths) : oks[i]})
              written == unit_pdf_paths # <<>> /\ WriteMerged(successful_merges)
              at == ToUnit(units, ui + 1)
          IN  /\ fs' = LeaveWith(IF written THEN WriteFile(fs, merged_pdf, Appended(bad, 1))
                                 ELSE fs, at)
              /\ merges' = Append(merges,
                     [u |-> ui, tried |-> unit_pdf_paths, oks |-> oks,
                      docs |-> Appended(bad, 1), bad |-> Cardinality(bad),
                      path |-> IF written THEN merged_pdf ELSE <<>>])
              /\ Goto(at)
    /\ UNCHANGED <<san, ext, uq, mode, course, listed, units, topics,
                   materials, resp, unit_pdf_paths, requests, hist>>

(***************************************************************************)
(* The run                                                                 *)
(***************************************************************************)
Init ==
    /\ pc = "login"
    /\ mode \in {"folder", "singlepdf"}
    /\ course = <<>> /\ listed = FALSE
    /\ units = <<>> /\ ui = 0 /\ topics = <<>> /\ ti = 0
    /\ materials = <<>> /\ mi = 0 /\ resp = NoResp
    /\ unit_pdf_paths = <<>> /\ requests = <<>> /\ hist = <<>> /\ merges = <<>>
    /\ fs = <<>>
    /\ SanIdle /\ ExtIdle /\ UqIdle

Next ==
    \/ Login \/ GetUnits \/ StartUnit \/ StartTopic
    \/ Download \/ Response \/ PlaceFolder \/ PlaceMerge \/ Merge

Spec == Init /\ [][Next]_vars

(***************************************************************************)
(* download_using_lib.py: main() takes the extension from the URL alone    *)
(* and writes every material straight to its destination                   *)
(***************************************************************************)
\* The materials a topic may list: two PDFs of different titles and a slide
\* deck
LibMaterialKinds ==
    { [title |-> S("a"), url |-> S("http://x/a.pdf")],
      [title |-> S("b"), url |-> S("http://x/file")],
      [title |-> S("c"), url |-> S("http://x/s.PPT")] }

\* Lines 117 and 132
LibExt(url) == IF splitext(url)[2] = <<>> THEN S(".pdf") ELSE splitext(url)[2]

\* Lines 118-120 and 135-137
dest_path ==
    join(IF mode = "folder" THEN topic_folder ELSE tmpdir,
         safe_title \o LibExt(material.url))

\* Lines 93-104: the course lookup is the one of download_material.py
LibLogin == Login

\* Lines 103-107 and 124-125
LibGetUnits == GetUnits

\* Lines 108-111 and 126-128
LibStartUnit == StartUnit

\* Lines 112-115 and 129-130: the topic's folder (folder mode), then its
\* materials
LibStartTopic ==
    /\ pc = "topic"
    /\ \E ml \in SeqUpTo(LibMaterialKinds, MaxMaterials) :
          /\ Len(hist) + Len(ml) <= FetchBudget
          /\ materials' = ml
          /\ LET at == ToMaterial(ml, ui, ti, 1)
             IN  /\ Goto(at)
                 /\ fs' = LeaveWith(IF mode = "folder" THEN makedirs(fs, topic_folder)
                                    ELSE fs, at)
    /\ requests' = Append(requests, Request("get_material_links", Len(materials')))
    /\ UNCHANGED <<san, ext, uq, mode, course, listed, units, topics,
                   resp, unit_pdf_paths, hist, merges>>

\* Lines 133-134: merge mode passes over a material whose URL does not end
\* in .pdf without fetching it
LibSkip ==
    /\ pc = "material" /\ mode = "singlepdf"
    /\ Lower(LibExt(material.url)) # S(".pdf")
    /\ Goto(ToMaterial(materials, ui, ti, mi + 1))
    /\ UNCHANGED <<san, ext, uq, fs, mode, course, listed, units, topics,
                   materials, resp, unit_pdf_paths, requests, hist, merges>>

\* Lines 122 and 139 with line 58: session.get(url) is issued
LibDownload ==
    /\ pc = "material"
    /\ mode = "singlepdf" => Lower(LibExt(material.url)) = S(".pdf")
    /\ requests' = Append(requests, Request("get", 0))
    /\ pc' = "fetching"
    /\ UNCHANGED <<san, ext, uq, fs, mode, course, listed, units, ui, topics, ti,
                   materials, mi, resp, unit_pdf_paths, hist, merges>>

\* Line 140: the destination joins the unit's document list, whatever the
\* status was
ListDest(paths, dest, status) == Append(paths, dest)

\* Lines 59-63, then line 140 in merge mode: on 200 the body is written to
\* the destination, otherwise the failure is printed; download_file returns
\* nothing, and main goes on
LibResponse ==
    /\ pc = "fetching"
    /\ \E status \in {200} \cup (IF MayFail THEN {404} ELSE {}) :
          LET paths == IF mode = "singlepdf"
                       THEN ListDest(unit_pdf_paths, dest_path, status)
                       ELSE unit_pdf_paths
              at == ToMaterial(materials, ui, ti, mi + 1)
          IN  /\ fs' = LeaveWith(download_file(fs, dest_path, <<Len(hist) + 1>>, status), at)
              /\ unit_pdf_paths' = paths
              /\ hist' = Append(hist,
                     [u |-> ui, t |-> ti, m |-> mi, status |-> status,
                      temp |-> dest_path, ext |-> LibExt(material.url),
                      final |-> dest_path,
                      outcome |-> IF status = 200 THEN "written" ELSE "failed",
                      slot |-> IF Len(paths) > Len(unit_pdf_paths) THEN Len(paths) ELSE 0])
              /\ Goto(at)
    /\ UNCHANGED <<san, ext, uq, mode, course, listed, units, topics,
                   materials, resp, requests, merges>>

\* The documents of the list that merger.append cannot open
Missing == {i \in 1..Len(unit_pdf_paths) : ~exists(fs, unit_pdf_paths[i])}

\* What the merger holds after the first n documents of the list
RECURSIVE LibAppended(_)
LibAppended(n) ==
    IF n = 0 THEN <<>> ELSE LibAppended(n - 1) \o fs[unit_pdf_paths[n]]

\* Lines 141-151: nothing for an empty list; otherwise every document is
\* appended, with no try around merger.append, and the merged file written.
\* An append of a file that is not there raises, which ends main and
\* removes the scratch directory.
LibMerge ==
    /\ pc = "merge"
    /\ LET at == ToUnit(units, ui + 1)
           first == IF Missing = {} THEN Len(unit_pdf_paths) + 1
                    ELSE CHOOSE i \in Missing : \A j \in Missing : i <= j
       IN  IF unit_pdf_paths = <<>>
           THEN /\ fs' = LeaveWith(fs, at)
                /\ merges' = Append(merges,
                       [u |-> ui, tried |-> <<>>, oks |-> <<>>, docs |-> <<>>,
                        bad |-> 0, path |-> <<>>])
                /\ Goto(at)
           ELSE IF Missing # {}
           THEN /\ fs' = RemoveTree(fs, tmpdir)
                /\ merges' = Append(merges,
                       [u |-> ui, tried |-> SubSeq(unit_pdf_paths, 1, first),
                        oks |-> [i \in 1..first |-> i < first],
                        docs |-> LibAppended(first - 1), bad |-> 0, path |-> <<>>])
                /\ pc' = "crashed"
                /\ UNCHANGED <<ui, ti, mi>>
           ELSE /\ fs' = LeaveWith(WriteFile(fs, merged_pdf,
                                             LibAppended(Len(unit_pdf_paths))), at)
                /\ merges' = Append(merges,
                       [u |-> ui, tried |-> unit_pdf_paths,
                        oks |-> [i \in 1..Len(unit_pdf_paths) |-> TRUE],
                        docs |-> LibAppended(Len(unit_pdf_paths)),
                        bad |-> 0, path |-> merged_pdf])
                /\ Goto(at)
    /\ UNCHANGED <<san, ext, uq, mode, course, listed, units, topics,
                   materials, resp, unit_pdf_paths, requests, hist>>

LibNext ==
    \/ LibLogin \/ LibGetUnits \/ LibStartUnit \/ LibStartTopic
    \/ LibSkip \/ LibDownload \/ LibResponse \/ LibMerge

LibSpec == Init /\ [][LibNext]_vars

(***************************************************************************)
(* Properties of the run                                                   *)
(***************************************************************************)
\* The positions main is at between two materials
LoopPositions == {"material", "topic", "unit", "merge", "done"}

\* The loop has moved on from the i-th fetched material
MovedOn(i) == i < Len(hist) \/ pc \in LoopPositions

\* C1: in both modes and for every outcome, once the loop has moved on from
\* a material that was staged, its staged file is no longer at its temporary
\* path: it was renamed to a final path or deleted.
StagedFileGone ==
    \A i \in 1..Len(hist) :
        (MovedOn(i) /\ hist[i].status = 200) =>
            /\ hist[i].outcome \in {"placed", "listed", "rejected", "orphan_removed"}
            /\ ~(exists(fs, hist[i].temp) /\ fs[hist[i].temp] = <<i>>)
            /\ i = Len(hist) => ~exists(fs, hist[i].temp)

\* The loop has moved on from a material whose rename failed and from one
\* that was placed
StagedFileGoneWitness ==
    /\ pc \in LoopPositions
    /\ \E i \in 1..Len(hist) : hist[i].outcome = "orphan_removed"
    /\ \E i \in 1..Len(hist) : hist[i].outcome \in {"placed", "listed"}

\* The materials that folder mode placed
Placed == {i \in 1..Len(hist) : hist[i].outcome = "placed"}

\* The directories on disk
Dirs == {d \in DOMAIN fs : fs[d] = DirMark}

\* C2: at the end of a folder-mode run every placed material has its own
\* file: the final paths are pairwise distinct, each still holds that
\* material's bytes, and a topic directory holds as many files as materials
\* were placed in it.
FolderOneFilePerMaterial ==
    (pc = "done" /\ mode = "folder") =>
        /\ \A i, j \in Placed : i # j => hist[i].final # hist[j].final
        /\ \A i \in Placed : exists(fs, hist[i].final) /\ fs[hist[i].final] = <<i>>
        /\ \A d \in Dirs :
              Cardinality(FilesIn(fs, d))
                  = Cardinality({i \in Placed : dirname(hist[i].final) = d})

\* The fetch ids, in fetch order from i on, of unit u's materials that were
\* listed for the merge and whose append succeeded
RECURSIVE MergeableIds(_, _, _)
MergeableIds(u, oks, i) ==
    IF i > Len(hist) THEN <<>>
    ELSE (IF hist[i].u = u /\ hist[i].outcome = "listed" /\ oks[hist[i].slot]
          THEN <<i>> ELSE <<>>) \o MergeableIds(u, oks, i + 1)

\* C3: what a unit's merger was given is exactly the unit's materials, in
\* listing order, that were fetched, renamed, resolved to .pdf and appended
\* without error, each with its own bytes and once.
MergeInListingOrder ==
    \A k \in 1..Len(merges) :
        merges[k].docs = MergeableIds(merges[k].u, merges[k].oks, 1)

\* The merge steps at least one append of which succeeded
Merged == {k \in 1..Len(merges) : \E i \in 1..Len(merges[k].oks) : merges[k].oks[i]}

\* C4: at the end of a merge-mode run the output directory holds one merged
\* file per unit that had a successful append, each still holding what that
\* unit's merger was given, also when two unit titles sanitise to one name.
MergedFilePerUnit ==
    (pc = "done" /\ mode = "singlepdf") =>
        /\ \A k \in Merged :
              exists(fs, merges[k].path) /\ fs[merges[k].path] = merges[k].docs
        /\ Cardinality(FilesIn(fs, output_name)) = Cardinality(Merged)

\* The positions <<u, t, m>> of the materials the portal listed, in listing
\* order, from request i on
RECURSIVE ListedPositions(_)
ListedPositions(i) ==
    IF i > Len(requests) THEN <<>>
    ELSE (IF requests[i].op = "get_material_links"
          THEN [m \in 1..requests[i].n |-> <<requests[i].u, requests[i].t, m>>]
          ELSE <<>>) \o ListedPositions(i + 1)

\* The positions of the fetches issued, in the order they were issued
RECURSIVE FetchedPositions(_)
FetchedPositions(i) ==
    IF i > Len(requests) THEN <<>>
    ELSE (IF requests[i].op = "get"
          THEN <<<<requests[i].u, requests[i].t, requests[i].m>>>>
          ELSE <<>>) \o FetchedPositions(i + 1)

\* A response with a status other than 200 arrives in this step
FetchFails ==
    pc = "fetching" /\ Len(hist') = Len(hist) + 1 /\ Last(hist').status # 200

\* C5: a fetch that returns a status other than 200 writes nothing and does
\* not stop the traversal: the step leaves the disk as it was and goes on to
\* the next material in listing order, and a run that ends has fetched
\* every material that was listed, in listing order.
FetchFailureSkips ==
    /\ [][FetchFails =>
            /\ fs' = fs
            /\ pc' \in LoopPositions
            /\ pc' = "material" => <<ui', ti', mi'>> = <<ui, ti, mi + 1>>]_vars
    /\ [](pc = "done" => FetchedPositions(1) = ListedPositions(1))

\* A fetch failed and a later material was fetched and staged
FetchFailureSkipsWitness ==
    \E i, j \in 1..Len(hist) : i < j /\ hist[i].status # 200 /\ hist[j].status = 200

\* C6: a course is processed if and only if some course of the listing has
\* exactly the requested title; when none has, no unit, topic or material
\* is requested, nothing is fetched and no directory or file is created.
CourseFoundIffListed ==
    pc # "login" =>
        /\ (course # <<>>) <=> listed
        /\ course = <<>> => (Len(requests) = 1 /\ fs = <<>> /\ hist = <<>>)

\* The number of fetches issued so far
RECURSIVE Issued(_)
Issued(i) ==
    IF i > Len(requests) THEN 0
    ELSE (IF requests[i].op = "get" THEN 1 ELSE 0) + Issued(i + 1)

\* The fetches in flight: issued and not yet answered
InFlight == Issued(1) - Len(hist)

\* A fetch is issued in this step
FetchIssued == Issued(1)' = Issued(1) + 1

\* C12: fetches and file operations happen one at a time in traversal order:
\* at most one fetch is in flight at any moment, and when the fetch for a
\* material is issued, the write, the extension resolution and the rename
\* or deletion of every material before it are complete.
OneAtATime ==
    /\ [](InFlight \in {0, 1})
    /\ [][FetchIssued =>
            /\ InFlight = 0
            /\ \A i \in 1..Len(hist) : hist[i].outcome \notin {"staged"}
            /\ \A i \in 1..Len(hist) :
                  hist[i].status = 200 => ~(exists(fs, hist[i].temp)
                                            /\ fs[hist[i].temp] = <<i>>)]_vars

\* A second fetch is in flight after the first material was placed
OneAtATimeWitness ==
    /\ pc = "fetching"
    /\ InFlight = 1
    /\ \E i \in 1..Len(hist) : hist[i].outcome \in {"placed", "listed"}

\* A response arrives in this step
Answered == pc = "fetching" /\ Len(hist') = Len(hist) + 1

\* C13: the fetch-and-stage step, on status 200, creates exactly one new
\* file, at the material's temporary path, and leaves every file that was
\* there unchanged; on any other status it creates and changes no file.
StageCreatesOneFile ==
    [][Answered =>
         IF Last(hist').status = 200
         THEN /\ ~exists(fs, Last(hist').temp)
              /\ DOMAIN fs' = DOMAIN fs \cup {Last(hist').temp}
              /\ \A p \in DOMAIN fs : fs'[p] = fs[p]
         ELSE fs' = fs]_vars

\* The rename of the staged file fails in this step
RenameFailed ==
    /\ pc = "staged"
    /\ Len(hist') = Len(hist)
    /\ Last(hist').outcome \in {"orphan_removed", "cleanup_failed"}

\* C14: a failed rename is local to one material: the staged file's
\* deletion is attempted and the traversal continues with the next material
\* in listing order, also when that deletion fails.
RenameFailureIsLocal ==
    [][RenameFailed =>
         /\ pc' \in LoopPositions
         /\ pc' = "material" => <<ui', ti', mi'>> = <<ui, ti, mi + 1>>]_vars

\* The materials that merge mode renamed into the scratch directory
Classified == {i \in 1..Len(hist) : hist[i].outcome \in {"listed", "rejected"}}

\* C15: in merge mode a renamed material joins the unit's document list if
\* and only if its resolved extension is '.pdf'; every other file is deleted
\* at once and is never appended to a merger; the output directory holds
\* nothing but merged '<unit>.pdf' files.
ListedIffPdf ==
    mode = "singlepdf" =>
        /\ \A i \in Classified :
              /\ hist[i].outcome = "listed" <=> hist[i].ext = S(".pdf")
              /\ hist[i].outcome = "listed" <=> hist[i].slot > 0
              /\ hist[i].outcome = "rejected" =>
                    /\ ~(exists(fs, hist[i].final) /\ fs[hist[i].final] = <<i>>)
                    /\ i = Len(hist) => ~exists(fs, hist[i].final)
        /\ \A k \in 1..Len(merges) : \A j \in 1..Len(merges[k].docs) :
              hist[merges[k].docs[j]].ext = S(".pdf")
        /\ \A p \in FilesIn(fs, output_name) :
              /\ \E k \in 1..Len(merges) : merges[k].path = p
              /\ \E u \in 1..Len(units) :
                    p = join(output_name, sanitize_filename(StripWs(units[u])) \o S(".pdf"))

\* A slide deck and another non-PDF were rejected, a PDF was listed and the
\* unit's merged file was written
ListedIffPdfWitness ==
    /\ mode = "singlepdf"
    /\ \E i \in Classified : hist[i].outcome = "rejected" /\ hist[i].ext = S(".ppt")
    /\ \E i \in Classified : hist[i].outcome = "rejected" /\ hist[i].ext = S(".docx")
    /\ \E i \in Classified : hist[i].outcome = "listed"
    /\ \E k \in 1..Len(merges) : merges[k].path # <<>>

\* A unit's merge step is taken in this step
MergeStep == pc = "merge" /\ Len(merges') = Len(merges) + 1

\* The appends of a merge step that succeeded
Oks(m) == {i \in 1..Len(m.oks) : m.oks[i]}

\* C16: a unit's merged file is written if and only if at least one append
\* for the unit succeeded: an empty document list and a list whose appends
\* all fail leave the output directory as it was; a failing append excludes
\* only that document; in every case main goes on to the next unit.
MergedIffAppended ==
    [][MergeStep =>
         LET m == Last(merges')
         IN  /\ m.tried = unit_pdf_paths
             /\ IF Oks(m) # {}
                THEN /\ exists(fs', merged_pdf)
                     /\ fs'[merged_pdf] = m.docs
                     /\ m.path = merged_pdf
                ELSE /\ m.path = <<>>
                     /\ FilesIn(fs', output_name) = FilesIn(fs, output_name)
                     /\ \A p \in FilesIn(fs, output_name) : fs'[p] = fs[p]
             /\ Len(m.docs) = Cardinality(Oks(m))
             /\ Cardinality({unit_pdf_paths[i] :
                               i \in {j \in 1..Len(m.oks) :
                                        ~m.oks[j] /\ exists(fs, unit_pdf_paths[j])}})
                   <= m.bad
             /\ pc' \in {"unit", "done"}
             /\ pc' = "unit" => ui' = ui + 1
             /\ pc' = "done" => ui = Len(units)]_vars

\* One append of a unit failed and another went into the written file
MergedIffAppendedWitness ==
    \E k \in 1..Len(merges) :
        /\ merges[k].bad = 1
        /\ Oks(merges[k]) # {}
        /\ Cardinality(Oks(merges[k])) < Len(merges[k].oks)
        /\ merges[k].path # <<>>

\* The path segment the titles of the catalogs stand for: the sanitised
\* title, the title being trimmed of surrounding whitespace first
TrimmedSegment(title) ==
    CASE title = S("U:")     -> S("U_")
      [] title = S("U?")     -> S("U_")
      [] title = S("V\t")    -> S("V")
      [] title = S("T")      -> S("T")
      [] title = S("T.")     -> S("T")
      [] title = S("temp:a") -> S("temp_a")
      [] title = S("temp_a") -> S("temp_a")
      [] title = S("a.pdf")  -> S("a.pdf")

\* The same for the sanitised title as it is, a tab becoming an underscore
SanitizedSegment(title) ==
    IF title = S("V\t") THEN S("V_") ELSE TrimmedSegment(title)

\* The final extension for a resolved extension
NormalizedExt(e) == IF e = S(".ppt") THEN S(".pptx") ELSE e

\* The extension the catalog's materials resolve to
ResolvedExt(m) ==
    CASE m.title = S("temp:a") -> S(".pdf")
      [] m.title = S("temp_a") -> S(".ppt")
      [] m.title = S("a.pdf")  -> S(".docx")

\* Folder mode is about to hand a path to the collision resolver
FolderPlacing == pc = "staged" /\ mode = "folder"

\* C17 as stated: the path handed to the collision resolver is
\* <output>/<sanitize(unit.title)>/<sanitize(topic.title)>/
\* <sanitize(material.title)><final_ext>.
FolderPathOfSanitizedTitles ==
    FolderPlacing =>
        final_path = S("DSA/") \o SanitizedSegment(units[ui]) \o S("/")
                        \o SanitizedSegment(topics[ti]) \o S("/")
                        \o SanitizedSegment(material.title)
                        \o NormalizedExt(ResolvedExt(material))

\* C17, amended: the path handed to the collision resolver is <output>/
\* <sanitize(trimmed unit.title)>/<sanitize(trimmed topic.title)>/
\* <sanitize(trimmed material.title)><final_ext>, final_ext being '.pptx'
\* for a resolved '.ppt' and the resolved extension otherwise; no file in
\* the output tree of folder mode has the extension '.ppt'.
FolderPathOfTrimmedTitles ==
    /\ FolderPlacing =>
          final_path = S("DSA/") \o TrimmedSegment(units[ui]) \o S("/")
                          \o TrimmedSegment(topics[ti]) \o S("/")
                          \o TrimmedSegment(material.title)
                          \o NormalizedExt(ResolvedExt(material))
    /\ mode = "folder" =>
          \A p \in DOMAIN fs : fs[p] # DirMark => Lower(splitext(p)[2]) # S(".ppt")
    /\ mode = "folder" =>
          \A i \in Placed :
              hist[i].ext = S(".ppt") => splitext(hist[i].final)[2] = S(".pptx")

\* A material that resolved to '.ppt' was placed, in a unit whose title
\* ends in a tab
FolderPathOfTrimmedTitlesWitness ==
    /\ mode = "folder"
    /\ pc \in LoopPositions
    /\ hist # <<>>
    /\ Last(hist).outcome = "placed"
    /\ Last(hist).ext = S(".ppt")
    /\ units[Last(hist).u] = S("V\t")

\* C18: merge mode stages every unit's materials in the one scratch
\* directory of the run and a unit's merge step leaves that directory as it
\* is; all the same the documents appended to a unit's merger are files
\* written while that unit's own materials were processed.
MergeOwnDocuments ==
    /\ [](mode = "singlepdf" =>
            /\ \A i \in 1..Len(hist) : dirname(hist[i].temp) = tmpdir
            /\ \A k \in 1..Len(merges) :
                  /\ \A j \in 1..Len(merges[k].tried) : dirname(merges[k].tried[j]) = tmpdir
                  /\ \A j \in 1..Len(merges[k].docs) :
                        hist[merges[k].docs[j]].u = merges[k].u)
    /\ [][(MergeStep /\ pc' # "done") =>
            \A p \in DOMAIN fs : Under(tmpdir, p) => (p \in DOMAIN fs' /\ fs'[p] = fs[p])]_vars

\* Two units were merged, each from a document of its own, the second
\* unit's document having met the first unit's in the scratch directory
MergeOwnDocumentsWitness ==
    /\ Len(merges) = 2
    /\ merges[1].docs = <<1>>
    /\ merges[2].docs = <<2>>
    /\ merges[2].tried = <<S("/tmp/tmpdl/temp_a_2.pdf")>>

\* The fetch ids of unit u's materials whose fetch returned 200, in
\* listing order, from fetch i on
RECURSIVE FetchedOk(_, _)
FetchedOk(u, i) ==
    IF i > Len(hist) THEN <<>>
    ELSE (IF hist[i].u = u /\ hist[i].status = 200 THEN <<i>> ELSE <<>>)
            \o FetchedOk(u, i + 1)

\* C19: in merge mode of download_using_lib.py a fetch that returns a status
\* other than 200 is local to one material: the material is not handed to
\* the merger, the unit's other documents are merged and the following
\* units are processed.
LibFetchFailureIsLocal ==
    mode = "singlepdf" =>
        /\ \A k \in 1..Len(merges) : \A i \in 1..Len(hist) :
              (hist[i].u = merges[k].u /\ hist[i].status # 200)
                 => hist[i].slot \notin 1..Len(merges[k].tried)
        /\ \A k \in 1..Len(merges) :
              /\ merges[k].docs = FetchedOk(merges[k].u, 1)
              /\ merges[k].docs # <<>> => merges[k].path # <<>>
        /\ (pc = "crashed" => hist = <<>>)

=============================================================================
